---- MODULE Spec2Model ----
(***************************************************************************)
(* Model of psd_tools/composer/vector.py: the vector-mask compositor       *)
(* (draw_vector_mask), the SVG symbol generator (_generate_symbol), the    *)
(* opacity application (_apply_opacity), the gradient fill composer        *)
(* (draw_gradient_fill) and the colour-stop interpolator                   *)
(* (_apply_color_map).                                                     *)
(*                                                                         *)
(* Each entry point has its own specification: SpecMask, SpecSymbol,       *)
(* SpecOpacity, SpecGradient and SpecColorMap (the last is                 *)
(* _apply_color_map called on its own).  A specification leaves the        *)
(* variables of the other entry points at their idle values.               *)
(*                                                                         *)
(* Numbers.  Pixel values are 8-bit integers.  Stop locations are kept as  *)
(* the stored integers (0..4096); the code divides them by 4096., which is *)
(* exact in binary floating point, so comparing the integers is comparing  *)
(* the floats.  Scaled stop colours are kept in hundredths (scalar 1.0 is  *)
(* 100, scalar 2.55 is 255), and the interpolant is evaluated in exact     *)
(* arithmetic; the rounding error of the floating-point operations is not  *)
(* modelled.  The stop values used here are ones whose scaled value        *)
(* truncates to the same 8-bit value in both (2.55 * 100, which evaluates  *)
(* to 254.99999999999997, is left out).                                    *)
(*                                                                         *)
(* Not modelled: the rasterizer behind _draw_subpath (a plane is an        *)
(* input), the trigonometric shape functions (the index field Z is an      *)
(* input), debug-level log records, draw_solid_color_fill and              *)
(* draw_pattern_fill.                                                      *)
(***************************************************************************)
EXTENDS Integers, Sequences, FiniteSets, TLC

VARIABLES
    \* draw_vector_mask
    vpc,                \* position in draw_vector_mask: "idle", "loop", "done"
    initial_fill_rule,  \* layer.vector_mask.initial_fill_rule
    paths,              \* layer.vector_mask.paths, each with its rasterized plane
    mask,               \* the accumulator image
    first,              \* the 'first' flag
    idx,                \* position of the for loop in paths (1-based)
    inverted,           \* positions at which ImageChops.invert was applied
    vresult,            \* the returned (cropped) image
    \* _generate_symbol
    spc, path, closed, width, height, symbol,
    \* _apply_opacity
    opc, image, setting, image0,
    \* draw_gradient_fill and _apply_color_map
    gpc,             \* "idle", "start", "field", "color_map", "mapped", "done"
    numpy_ok,        \* whether 'import numpy' succeeds
    scipy_ok,        \* whether 'from scipy import interpolate' succeeds
    mode,            \* the target image mode
    gsetting,        \* the fill setting (Key.Opacity)
    grad,            \* setting.get(Key.Gradient)
    Z,               \* the clamped (and possibly reversed) index field
    scalar,          \* _apply_color_map's 'scalar', in hundredths
    ctable,          \* the colour (X, Y) handed to interp1d
    atable,          \* the opacity (X, Y) handed to interp1d
    gradient_image,  \* what _apply_color_map returned
    gresult,         \* what draw_gradient_fill returned
    raised,          \* the exception that left the call, or "none"
    log              \* error and warning records written to the logger

maskVars   == <<vpc, initial_fill_rule, paths, mask, first, idx, inverted, vresult>>
symbolVars == <<spc, path, closed, width, height, symbol>>
opacityVars == <<opc, image, setting, image0>>
gradientVars == <<gpc, numpy_ok, scipy_ok, mode, gsetting, grad, Z, scalar, ctable,
                  atable, gradient_image, gresult, raised, log>>
vars == <<maskVars, symbolVars, opacityVars, gradientVars>>

-----------------------------------------------------------------------------
(* Bounds and constants *)

\* Number of pixels of the modelled canvas (one row of CanvasWidth pixels).
CanvasWidth == 2
\* Longest list of sub-paths of a vector mask.
MaxPaths == 3
\* Largest 8-bit value.
MaxLevel == 255

Pixels == 1..CanvasWidth

Min(a, b) == IF a < b THEN a ELSE b
Max(a, b) == IF a > b THEN a ELSE b
\* 8-bit saturation, as the imaging library stores a computed value.
CLIP8(v) == Max(0, Min(MaxLevel, v))

RECURSIVE SeqsUpTo(_, _)
\* All sequences over S of length at most n.
SeqsUpTo(S, n) ==
    IF n = 0 THEN {<<>>}
    ELSE LET shorter == SeqsUpTo(S, n - 1)
         IN  shorter \cup {Append(s, x) : s \in {t \in shorter : Len(t) = n - 1}, x \in S}

\* Python's None where an image is expected ("no raster").
NoRaster == [mode |-> "None", color |-> <<>>, alpha |-> <<>>]

-----------------------------------------------------------------------------
(* draw_vector_mask *)

\* Image.new('L', (width, height), color)
NewImage(color) == [p \in Pixels |-> color]

\* The planes _draw_subpath returns here: nothing covered, everything
\* covered, everything half covered (antialiased), and the first pixel only.
Planes == { NewImage(0), NewImage(MaxLevel), NewImage(128),
            [p \in Pixels |-> IF p = 1 THEN MaxLevel ELSE 0] }
Operations == 0..3
SubPaths == [operation : Operations, plane : Planes]

\* _draw_subpath: the rasterizer's output for the sub-path.
DrawSubpath(subpath) == subpath.plane

ChopsDifference(a, b) == [p \in Pixels |-> IF a[p] >= b[p] THEN a[p] - b[p] ELSE b[p] - a[p]]
ChopsLighter(a, b)    == [p \in Pixels |-> Max(a[p], b[p])]
ChopsDarker(a, b)     == [p \in Pixels |-> Min(a[p], b[p])]
ChopsInvert(a)        == [p \in Pixels |-> MaxLevel - a[p]]
ChopsSubtractWrap(a, b) == [p \in Pixels |-> (a[p] - b[p]) % (MaxLevel + 1)]
ChopsSubtract(a, b)   == [p \in Pixels |-> CLIP8(a[p] - b[p])]

\* Whether the loop body inverts the accumulator for this sub-path.
Inverts(isFirst, operation) == isFirst /\ operation \in {2, 3}

\* The value of 'first' after a loop iteration (line 35).
NextFirstOnInvert(isFirst, operation) == isFirst /\ operation \notin {2, 3}
NextFirst(isFirst, operation) == FALSE

\* One iteration of the loop body on the accumulator.
Combine(m, isFirst, operation, plane) ==
    LET base == IF Inverts(isFirst, operation) THEN ChopsInvert(m) ELSE m
    IN  CASE operation = 0 -> ChopsDifference(m, plane)
          [] operation = 1 -> ChopsLighter(m, plane)
          [] operation = 2 -> ChopsSubtract(base, plane)
          [] operation = 3 -> ChopsDarker(base, plane)
          [] OTHER -> m

\* mask.crop(box) for a box (left, right) inside the canvas.
Crop(m, left, right) == [k \in 1..(right - left) |-> m[left + k]]

MaskInit ==
    /\ vpc = "loop"
    /\ initial_fill_rule \in {0, 1}
    /\ paths \in SeqsUpTo(SubPaths, MaxPaths)
    /\ mask = NewImage(MaxLevel * initial_fill_rule)
    /\ first = TRUE
    /\ idx = 1
    /\ inverted = <<>>
    /\ vresult = NoRaster

MaskIdle ==
    /\ vpc = "idle" /\ initial_fill_rule = 0 /\ paths = <<>> /\ mask = <<>>
    /\ first = TRUE /\ idx = 0 /\ inverted = <<>> /\ vresult = NoRaster

\* One iteration of 'for subpath in layer.vector_mask.paths'.
ProcessSubpath ==
    /\ vpc = "loop"
    /\ idx <= Len(paths)
    /\ LET subpath == paths[idx]
           plane == DrawSubpath(subpath)
       IN  /\ mask' = Combine(mask, first, subpath.operation, plane)
           /\ inverted' = IF Inverts(first, subpath.operation)
                          THEN Append(inverted, idx) ELSE inverted
           /\ first' = NextFirst(first, subpath.operation)
    /\ idx' = idx + 1
    /\ UNCHANGED <<vpc, initial_fill_rule, paths, vresult>>
    /\ UNCHANGED <<symbolVars, opacityVars, gradientVars>>

\* 'return mask.crop(layer.bbox)' once the loop has ended.
ReturnMask ==
    /\ vpc = "loop"
    /\ idx > Len(paths)
    /\ \E left \in 0..(CanvasWidth - 1) :
         \E right \in (left + 1)..CanvasWidth :
            vresult' = [mode |-> "L", color |-> Crop(mask, left, right), alpha |-> <<>>]
    /\ vpc' = "done"
    /\ UNCHANGED <<initial_fill_rule, paths, mask, first, idx, inverted>>
    /\ UNCHANGED <<symbolVars, opacityVars, gradientVars>>

-----------------------------------------------------------------------------
(* _generate_symbol *)

\* Longest sub-path, in anchors.
MaxAnchors == 3

\* A coordinate pair is <<c0, c1>> (Python's [0] and [1]), normalized to
\* [0,1] and kept in quarters: 3 stands for 0.75.
C0(pair) == pair[1]
C1(pair) == pair[2]

Knots == {
    [preceding |-> <<0, 1>>, anchor |-> <<1, 2>>, leaving |-> <<2, 3>>],
    [preceding |-> <<3, 4>>, anchor |-> <<4, 0>>, leaving |-> <<1, 3>>],
    [preceding |-> <<2, 0>>, anchor |-> <<3, 1>>, leaving |-> <<4, 2>>] }

\* (width, height) of the target canvas.
Sizes == {<<2, 3>>, <<5, 4>>}

\* What the generator yields: a path command or a number (in quarter pixels).
Cmd(c) == [kind |-> "cmd", c |-> c, v |-> 0]
Num(v) == [kind |-> "num", c |-> "", v |-> v]

Zip(a, b) == [k \in 1..Min(Len(a), Len(b)) |-> <<a[k], b[k]>>]

\* 'points': the consecutive anchor pairs (lines 65-68).
Points(p, is_closed) ==
    IF is_closed THEN Zip(p, Tail(p) \o SubSeq(p, 1, 1)) ELSE Zip(p, Tail(p))

\* The six numbers yielded for one pair (lines 72-77).
SegmentSwapped(p1, p2, w, h) ==
    << Num(C0(p1.leaving) * w),   Num(C1(p1.leaving) * h),
       Num(C0(p2.preceding) * w), Num(C1(p2.preceding) * h),
       Num(C0(p2.anchor) * w),    Num(C1(p2.anchor) * h) >>
Segment(p1, p2, w, h) ==
    << Num(C1(p1.leaving) * w),   Num(C0(p1.leaving) * h),
       Num(C1(p2.preceding) * w), Num(C0(p2.preceding) * h),
       Num(C1(p2.anchor) * w),    Num(C0(p2.anchor) * h) >>

RECURSIVE Segments(_, _, _)
Segments(points, w, h) ==
    IF points = <<>> THEN <<>>
    ELSE Segment(Head(points)[1], Head(points)[2], w, h) \o Segments(Tail(points), w, h)

\* Everything _generate_symbol yields, in order.
GenerateSymbol(p, is_closed, w, h, command) ==
    IF Len(p) = 0 THEN <<>>
    ELSE << Cmd("M"), Num(C1(p[1].anchor) * w), Num(C0(p[1].anchor) * h), Cmd(command) >>
         \o Segments(Points(p, is_closed), w, h)
         \o (IF is_closed THEN << Cmd("Z") >> ELSE <<>>)

SymbolInit ==
    /\ spc = "call"
    /\ path \in SeqsUpTo(Knots, MaxAnchors)
    /\ closed \in BOOLEAN
    /\ \E size \in Sizes : width = size[1] /\ height = size[2]
    /\ symbol = <<>>

SymbolIdle ==
    /\ spc = "idle" /\ path = <<>> /\ closed = FALSE /\ width = 0 /\ height = 0
    /\ symbol = <<>>

\* _draw_subpath consumes the whole generator (line 43).
GenerateSymbolCall ==
    /\ spc = "call"
    /\ symbol' = GenerateSymbol(path, closed, width, height, "C")
    /\ spc' = "done"
    /\ UNCHANGED <<path, closed, width, height>>
    /\ UNCHANGED <<maskVars, opacityVars, gradientVars>>

-----------------------------------------------------------------------------
(* _apply_opacity *)

\* Number of pixels of the buffers handed to _apply_opacity.
OpacityPixels == 2
\* The default of setting.get(Key.Opacity, 100), and the no-op value.
FullOpacity == 100

EndsWithA(m) == m \in {"LA", "RGBA", "CMYKA"}
\* mode.rstrip('A')
RStripA(m) == CASE m = "LA" -> "L" [] m = "RGBA" -> "RGB" [] m = "CMYKA" -> "CMYK"
                [] OTHER -> m
\* The mode of an alpha-less image once putalpha has added the band.  (For
\* CMYK the imaging library has no alpha mode of its own; "CMYKA" stands for
\* the promoted image.)
WithAlpha(m) == CASE m = "L" -> "LA" [] m = "RGB" -> "RGBA" [] m = "CMYK" -> "CMYKA"
                  [] OTHER -> m
Channels(m) == CASE RStripA(m) = "L" -> 1 [] RStripA(m) = "RGB" -> 3 [] OTHER -> 4

\* A setting descriptor, as far as Key.Opacity goes.
NoOpacity == [has_opacity |-> FALSE, opacity |-> FullOpacity]
Settings == {NoOpacity} \cup [has_opacity : {TRUE}, opacity : 0..FullOpacity]
\* int(setting.get(Key.Opacity, 100))
GetOpacity(s) == IF s.has_opacity THEN s.opacity ELSE FullOpacity

\* alpha.point(lambda x: int(x * opacity / 100.)), per pixel value
ScaleAlphaRounded(x, opacity) == (x * opacity + 50) \div FullOpacity
ScaleAlpha(x, opacity) == (x * opacity) \div FullOpacity

\* The fill value of image.putalpha(int(opacity * 255)); the imaging library
\* saturates the integer to 8 bits when it fills the band.
AlphaFill(opacity) == CLIP8(opacity * MaxLevel)

\* The image after _apply_opacity(img, s); img is a raster.
ApplyOpacity(img, s) ==
    LET opacity == GetOpacity(s)
    IN  IF opacity # FullOpacity
        THEN IF EndsWithA(img.mode)
             THEN [img EXCEPT !.alpha =
                      [k \in DOMAIN img.alpha |-> ScaleAlpha(img.alpha[k], opacity)]]
             ELSE [img EXCEPT !.mode = WithAlpha(img.mode),
                              !.alpha = [k \in DOMAIN img.color |-> AlphaFill(opacity)]]
        ELSE img

PixelColors(m) ==
    { [c \in 1..Channels(m) |-> IF c = 1 THEN 200 ELSE 10],
      [c \in 1..Channels(m) |-> IF c = 1 THEN 10 ELSE 30] }
AlphaLevels == {0, 1, 128, MaxLevel}
OpacityModes == {"L", "LA", "RGB", "RGBA"}
Buffers(m) ==
    [mode : {m}, color : [1..OpacityPixels -> PixelColors(m)],
     alpha : IF EndsWithA(m) THEN [1..OpacityPixels -> AlphaLevels] ELSE {<<>>}]

OpacityInit ==
    /\ opc = "call"
    /\ \E m \in OpacityModes : image \in Buffers(m)
    /\ setting \in Settings
    /\ image0 = image

OpacityIdle ==
    /\ opc = "idle" /\ image = NoRaster /\ setting = NoOpacity /\ image0 = NoRaster

\* _apply_opacity(image, setting) on a raster; image0 keeps the argument as
\* it was at the call.
ApplyOpacityCall ==
    /\ opc = "call"
    /\ image' = ApplyOpacity(image, setting)
    /\ opc' = "done"
    /\ UNCHANGED <<setting, image0>>
    /\ UNCHANGED <<maskVars, symbolVars, gradientVars>>

-----------------------------------------------------------------------------
(* _apply_color_map *)

\* Longest list of colour stops of a gradient descriptor.
MaxStops == 4
\* Longest list of transparency stops of a gradient descriptor.
MaxAlphaStops == 2
\* Stored stop locations run from 0 to 4096 (location / 4096.).
LocationScale == 4096

Modes == {"L", "LA", "RGB", "RGBA", "CMYK", "CMYKA"}

StopLocations == {0, 1229, LocationScale}
AlphaLocations == {0, LocationScale}
\* Stop colours, in the stored units of the colour model.
StopColors(m) ==
    { [c \in 1..Channels(m) |-> IF c = 1 THEN 80 ELSE 40],
      [c \in 1..Channels(m) |-> IF c = 1 THEN 0 ELSE 50] }

NonDecreasing(stops) ==
    \A i \in 1..(Len(stops) - 1) : stops[i].location <= stops[i + 1].location

ColorStopLists(m) ==
    { s \in SeqsUpTo([location : StopLocations, color : StopColors(m)], MaxStops) :
        NonDecreasing(s) }
AlphaStopLists ==
    { s \in SeqsUpTo([location : AlphaLocations, opacity : {0, 80}], MaxAlphaStops) :
        NonDecreasing(s) }

NoTransparency == [present |-> FALSE, stops |-> <<>>]
Transparencies(m) ==
    IF EndsWithA(m)
    THEN {NoTransparency} \cup [present : {TRUE}, stops : AlphaStopLists]
    ELSE {NoTransparency,
          [present |-> TRUE, stops |-> << [location |-> 0, opacity |-> 80] >>]}

\* The gradient descriptors _apply_color_map is applied to.
Grads(m) ==
    [form : {"CustomStops"}, colors : ColorStopLists(m), transparency : Transparencies(m)]
    \cup [form : {"ColorNoise", "Unknown"}, colors : {<<>>}, transparency : {NoTransparency}]

\* 'scalar' (lines 269-273), in hundredths.
Scalar(m) ==
    CASE m = "RGB" -> 100 [] m = "L" -> 255 [] m = "CMYK" -> 255 [] OTHER -> 100

\* The (location, value) entry of a colour stop (lines 276-277) and of a
\* transparency stop (lines 297-298); values in hundredths.
ColorEntry(stop, sc) ==
    [x |-> stop.location, y |-> [c \in DOMAIN stop.color |-> sc * stop.color[c]]]
AlphaEntry(stop) == [x |-> stop.location, y |-> << stop.opacity * 255 >>]

\* One iteration of the stop loop on the table built so far (lines 278-281).
PushStopKeepFirst(table, entry) ==
    IF Len(table) > 0 /\ table[Len(table)].x = entry.x THEN table
    ELSE Append(table, entry)
PushStop(table, entry) ==
    IF Len(table) > 0 /\ table[Len(table)].x = entry.x
    THEN Append(SubSeq(table, 1, Len(table) - 1), entry)
    ELSE Append(table, entry)

RECURSIVE PushAll(_, _)
PushAll(table, entries) ==
    IF entries = <<>> THEN table
    ELSE PushAll(PushStop(table, Head(entries)), Tail(entries))

\* 'if len(X) == 1: X = [0., 1.]; Y = [Y[0], Y[0]]' (lines 283-285).
FlatRangeFromStop(table) ==
    IF Len(table) = 1
    THEN << table[1], [x |-> table[1].x + LocationScale, y |-> table[1].y] >>
    ELSE table
FlatRange(table) ==
    IF Len(table) = 1
    THEN << [x |-> 0, y |-> table[1].y], [x |-> LocationScale, y |-> table[1].y] >>
    ELSE table

\* The table handed to interp1d for a non-empty list of entries.
StopTable(entries) == FlatRange(PushAll(<<>>, entries))

ColorEntries(stops, sc) == [k \in DOMAIN stops |-> ColorEntry(stops[k], sc)]
AlphaEntries(stops) == [k \in DOMAIN stops |-> AlphaEntry(stops[k])]

\* interp1d(X, Y, bounds_error=False, fill_value=(Y[0], Y[-1])) at z: the
\* value is InterpNum / InterpDen per channel.  'lo' is the lower stop of the
\* segment searchsorted selects.
LowerStop(table, z) ==
    LET i == CHOOSE k \in 1..Len(table) :
                 table[k].x >= z /\ \A j \in 1..(k - 1) : table[j].x < z
    IN  Max(i, 2) - 1
InterpDen(table, z) ==
    IF z < table[1].x \/ z > table[Len(table)].x THEN 1
    ELSE LET lo == LowerStop(table, z) IN table[lo + 1].x - table[lo].x
InterpNum(table, z, c) ==
    IF z < table[1].x THEN table[1].y[c]
    ELSE IF z > table[Len(table)].x THEN table[Len(table)].y[c]
    ELSE LET lo == LowerStop(table, z)
             a == table[lo]
             b == table[lo + 1]
         IN  a.y[c] * (b.x - a.x) + (b.y[c] - a.y[c]) * (z - a.x)

\* G(z).astype(np.uint8) for one channel value given in hundredths.
AsUint8(num, den) == (num \div (den * 100)) % (MaxLevel + 1)
InterpPixel(table, z) ==
    [c \in DOMAIN table[1].y |-> AsUint8(InterpNum(table, z, c), InterpDen(table, z))]

\* The custom-stops branch (lines 269-311): the locals it computes, the
\* image it builds and the exception that leaves it.
CustomStops(m, g, z) ==
    LET sc == Scalar(m)
        ct == IF g.colors = <<>> THEN <<>> ELSE StopTable(ColorEntries(g.colors, sc))
        wantAlpha == g.transparency.present /\ EndsWithA(m)
        at == IF wantAlpha /\ ct # <<>> /\ g.transparency.stops # <<>>
              THEN StopTable(AlphaEntries(g.transparency.stops)) ELSE <<>>
        failed == ct = <<>> \/ (wantAlpha /\ at = <<>>)
        base == IF ct = <<>> THEN NoRaster
                ELSE [mode |-> RStripA(m),
                      color |-> [k \in DOMAIN z |-> InterpPixel(ct, z[k])],
                      alpha |-> <<>>]
    IN  [scalar |-> sc, ctable |-> ct, atable |-> at,
         raised |-> IF failed THEN "AssertionError" ELSE "none",
         image  |-> IF failed THEN NoRaster
                    ELSE IF wantAlpha
                    THEN [base EXCEPT !.mode = WithAlpha(base.mode),
                                      !.alpha = [k \in DOMAIN z |-> InterpPixel(at, z[k])[1]]]
                    ELSE base]

\* The images the colour-noise branch can build: the lookup table is
\* pseudo-random, so the pixels are arbitrary.
NoiseImages(m, z) ==
    { [mode |-> m, color |-> [k \in DOMAIN z |-> col],
       alpha |-> IF EndsWithA(m) THEN [k \in DOMAIN z |-> a] ELSE <<>>] :
         col \in StopColors(m), a \in {MaxLevel} }

\* Index fields: two pixels, values in 1/4096.
ZFields == { <<0, LocationScale>>, <<LocationScale, 0>>, <<1229, 2048>>, <<2867, 2048>> }
\* The index fields _apply_color_map is applied to on its own.
ColorMapFields == { <<0, LocationScale>>, <<1229, 2048>> }
\* 'Z = 1 - Z'
Reverse(z) == [k \in DOMAIN z |-> LocationScale - z[k]]
\* np.ones(...) * 0.5
HalfField == <<2048, 2048>>

\* _apply_color_map(mode, grad, Z)
ApplyColorMapCall ==
    /\ gpc = "color_map"
    /\ IF ~scipy_ok
       THEN /\ raised' = "ImportError"
            /\ gpc' = "done"
            /\ UNCHANGED <<scalar, ctable, atable, gradient_image, log>>
       ELSE IF grad.form = "ColorNoise"
       THEN /\ gradient_image' \in NoiseImages(mode, Z)
            /\ gpc' = "mapped"
            /\ UNCHANGED <<scalar, ctable, atable, raised, log>>
       ELSE IF grad.form = "CustomStops"
       THEN LET r == CustomStops(mode, grad, Z)
            IN  /\ scalar' = r.scalar
                /\ ctable' = r.ctable
                /\ atable' = r.atable
                /\ gradient_image' = r.image
                /\ raised' = r.raised
                /\ gpc' = IF r.raised = "none" THEN "mapped" ELSE "done"
                /\ UNCHANGED log
       ELSE /\ log' = Append(log, "error: Unknown gradient form")
            /\ gradient_image' = NoRaster
            /\ gpc' = "mapped"
            /\ UNCHANGED <<scalar, ctable, atable, raised>>
    /\ UNCHANGED <<numpy_ok, scipy_ok, mode, gsetting, grad, Z, gresult>>
    /\ UNCHANGED <<maskVars, symbolVars, opacityVars>>

ColorMapInit ==
    /\ gpc = "color_map"
    /\ numpy_ok = TRUE
    /\ scipy_ok = TRUE
    /\ mode \in Modes
    /\ gsetting = NoOpacity
    /\ grad \in Grads(mode)
    /\ Z \in ColorMapFields
    /\ scalar = 0 /\ ctable = <<>> /\ atable = <<>>
    /\ gradient_image = NoRaster /\ gresult = NoRaster
    /\ raised = "none" /\ log = <<>>

-----------------------------------------------------------------------------
(* draw_gradient_fill *)

GradientKinds == {"Linear", "Radial", "Angle", "Reflected", "Diamond"}

\* The descriptors draw_gradient_fill is applied to.
GradientGrads(m) ==
    { [form |-> "CustomStops",
       colors |-> << [location |-> 0, color |-> from],
                     [location |-> LocationScale, color |-> to] >>,
       transparency |-> t] :
         from \in StopColors(m), to \in StopColors(m),
         t \in {NoTransparency,
                [present |-> TRUE, stops |-> << [location |-> 0, opacity |-> 80] >>]} }
    \cup [form : {"ColorNoise", "Unknown"}, colors : {<<>>}, transparency : {NoTransparency}]

GradientInit ==
    /\ gpc = "start"
    /\ numpy_ok \in BOOLEAN
    /\ scipy_ok \in BOOLEAN
    /\ mode \in Modes
    /\ gsetting \in Settings
    /\ grad \in GradientGrads(mode)
    /\ Z = <<>>
    /\ scalar = 0 /\ ctable = <<>> /\ atable = <<>>
    /\ gradient_image = NoRaster /\ gresult = NoRaster
    /\ raised = "none" /\ log = <<>>

GradientIdle ==
    /\ gpc = "idle" /\ numpy_ok = TRUE /\ scipy_ok = TRUE /\ mode = "L"
    /\ gsetting = NoOpacity /\ grad = [form |-> "Unknown", colors |-> <<>>,
                                       transparency |-> NoTransparency]
    /\ Z = <<>> /\ scalar = 0 /\ ctable = <<>> /\ atable = <<>>
    /\ gradient_image = NoRaster /\ gresult = NoRaster
    /\ raised = "none" /\ log = <<>>

\* 'try: import numpy as np / except ImportError: ... return None'
ImportNumpy ==
    /\ gpc = "start"
    /\ IF numpy_ok
       THEN gpc' = "field" /\ UNCHANGED <<gresult, log>>
       ELSE /\ log' = Append(log, "error: Gradient fill requires numpy and scipy.")
            /\ gresult' = NoRaster
            /\ gpc' = "done"
    /\ UNCHANGED <<numpy_ok, scipy_ok, mode, gsetting, grad, Z, scalar, ctable, atable,
                   gradient_image, raised>>
    /\ UNCHANGED <<maskVars, symbolVars, opacityVars>>

\* Lines 151-177: the index field of the gradient kind, clamped to [0,1] and
\* reversed on request.  The shape functions are trigonometric; their output
\* is an arbitrary field here.
MakeField ==
    /\ gpc = "field"
    /\ \E gradient_kind \in GradientKinds \cup {"Unknown"}, shape \in ZFields,
          reverse \in BOOLEAN :
         LET z == IF gradient_kind \in GradientKinds THEN shape ELSE HalfField
         IN  /\ Z' = IF reverse THEN Reverse(z) ELSE z
             /\ log' = IF gradient_kind \in GradientKinds THEN log
                       ELSE Append(log, "warning: Unknown gradient style")
    /\ gpc' = "color_map"
    /\ UNCHANGED <<numpy_ok, scipy_ok, mode, gsetting, grad, scalar, ctable, atable,
                   gradient_image, gresult, raised>>
    /\ UNCHANGED <<maskVars, symbolVars, opacityVars>>

\* '_apply_opacity(gradient_image, setting); return gradient_image'
ApplyOpacityAndReturn ==
    /\ gpc = "mapped"
    /\ IF GetOpacity(gsetting) # FullOpacity /\ gradient_image = NoRaster
       THEN raised' = "AttributeError" /\ UNCHANGED gresult
       ELSE gresult' = ApplyOpacity(gradient_image, gsetting) /\ UNCHANGED raised
    /\ gpc' = "done"
    /\ UNCHANGED <<numpy_ok, scipy_ok, mode, gsetting, grad, Z, scalar, ctable, atable,
                   gradient_image, log>>
    /\ UNCHANGED <<maskVars, symbolVars, opacityVars>>

-----------------------------------------------------------------------------
(* Specifications *)

MaskNext == ProcessSubpath \/ ReturnMask
InitMask == MaskInit /\ SymbolIdle /\ OpacityIdle /\ GradientIdle
SpecMask == InitMask /\ [][MaskNext]_vars

SymbolNext == GenerateSymbolCall
InitSymbol == MaskIdle /\ SymbolInit /\ OpacityIdle /\ GradientIdle
SpecSymbol == InitSymbol /\ [][SymbolNext]_vars

OpacityNext == ApplyOpacityCall
InitOpacity == MaskIdle /\ SymbolIdle /\ OpacityInit /\ GradientIdle
SpecOpacity == InitOpacity /\ [][OpacityNext]_vars

GradientNext == ImportNumpy \/ MakeField \/ ApplyColorMapCall \/ ApplyOpacityAndReturn
InitGradient == MaskIdle /\ SymbolIdle /\ OpacityIdle /\ GradientInit
SpecGradient == InitGradient /\ [][GradientNext]_vars

ColorMapNext == ApplyColorMapCall
InitColorMap == MaskIdle /\ SymbolIdle /\ OpacityIdle /\ ColorMapInit
SpecColorMap == InitColorMap /\ [][ColorMapNext]_vars

-----------------------------------------------------------------------------
(* Properties of draw_vector_mask *)

\* A plane that is a set: nothing covered or everything covered.
UniformPlane(plane) == plane = NewImage(0) \/ plane = NewImage(MaxLevel)
AllUniform == \A k \in DOMAIN paths : UniformPlane(paths[k].plane)

SetApply(acc, operation, covered) ==
    CASE operation = 0 -> (acc # covered)
      [] operation = 1 -> (acc \/ covered)
      [] operation = 2 -> (acc /\ ~covered)
      [] operation = 3 -> (acc /\ covered)

RECURSIVE SetFold(_, _, _)
SetFold(acc, ps, k) ==
    IF k > Len(ps) THEN acc
    ELSE SetFold(SetApply(acc, ps[k].operation, ps[k].plane = NewImage(MaxLevel)), ps, k + 1)

\* The set-algebra value of the whole canvas for a fill rule and sub-paths.
SetResult(fill, ps) ==
    LET base == (fill = 1)
        start == IF Len(ps) > 0 /\ ps[1].operation \in {2, 3} THEN ~base ELSE base
    IN  SetFold(start, ps, 1)

\* C1: with sub-path planes that are uniformly 0 or uniformly 255, every
\* pixel of the result of draw_vector_mask is the set-algebra fold of the
\* sub-paths (0 XOR, 1 OR, 2 AND NOT, 3 AND) from the base 255 *
\* initial_fill_rule, inverted once iff the first sub-path has operation 2 or
\* 3; with no sub-paths it is the uniform 255 * initial_fill_rule buffer.
C1_SetAlgebra ==
    (vpc = "done" /\ AllUniform) =>
        /\ vresult.mode = "L"
        /\ \A p \in DOMAIN vresult.color :
              vresult.color[p] = IF SetResult(initial_fill_rule, paths) THEN MaxLevel ELSE 0
        /\ paths = <<>> =>
              \A p \in DOMAIN vresult.color :
                  vresult.color[p] = MaxLevel * initial_fill_rule

C1_Witness ==
    /\ vpc = "done" /\ AllUniform
    /\ Len(paths) >= 3
    /\ paths[1].operation = 2 /\ paths[2].operation = 0 /\ paths[3].operation = 3
    /\ paths[1].plane = NewImage(0) /\ paths[3].plane = NewImage(MaxLevel)
    /\ initial_fill_rule = 0
    /\ Len(vresult.color) = CanvasWidth
    /\ vresult.color[1] = MaxLevel

\* C2: 'first' is cleared after any sub-path, so the accumulator is inverted
\* at most once per call, only at the first position and only for operation
\* 2 or 3 there; a later sub-path never inverts it, whatever its operation.
C2_InvertOnlyFirst ==
    /\ Len(inverted) <= 1
    /\ \A k \in DOMAIN inverted :
          inverted[k] = 1 /\ paths[1].operation \in {2, 3}
    /\ (vpc \in {"loop", "done"} /\ idx > 1) => ~first
    /\ (vpc \in {"loop", "done"} /\ idx > 1 /\ paths[1].operation \in {2, 3})
          => inverted = <<1>>

C2_Witness ==
    /\ vpc = "done"
    /\ Len(paths) >= 3
    /\ paths[1].operation = 0 /\ paths[2].operation = 2 /\ paths[3].operation = 3
    /\ ~UniformPlane(paths[2].plane)
    /\ inverted = <<>>

-----------------------------------------------------------------------------
(* Properties of _generate_symbol *)

\* The anchor after position k, wrapping from the last to the first.
NextKnot(k) == path[(k % Len(path)) + 1]

\* C10: nothing for an empty sub-path; otherwise 'M', the first anchor, 'C',
\* then one segment (p1.leaving, p2.preceding, p2.anchor) per consecutive
\* pair: n segments and a final 'Z' when closed (the last back to the first
\* anchor), n-1 segments and no 'Z' when open; every point is
\* (component[1] * width, component[0] * height).
C10_Symbol ==
    spc = "done" =>
        LET n == Len(path)
            segs == IF closed THEN n ELSE n - 1
            Point(at, pair) ==
                /\ symbol[at] = Num(C1(pair) * width)
                /\ symbol[at + 1] = Num(C0(pair) * height)
        IN  IF n = 0 THEN symbol = <<>>
            ELSE /\ Len(symbol) = 4 + 6 * segs + (IF closed THEN 1 ELSE 0)
                 /\ symbol[1] = Cmd("M")
                 /\ Point(2, path[1].anchor)
                 /\ symbol[4] = Cmd("C")
                 /\ \A k \in 1..segs :
                       /\ Point(6 * k - 1, path[k].leaving)
                       /\ Point(6 * k + 1, NextKnot(k).preceding)
                       /\ Point(6 * k + 3, NextKnot(k).anchor)
                 /\ closed => symbol[Len(symbol)] = Cmd("Z")
                 /\ ~closed => \A i \in DOMAIN symbol : symbol[i] # Cmd("Z")

C10_Witness ==
    /\ spc = "done" /\ closed
    /\ Len(path) >= 3
    /\ path[1] # path[Len(path)]
    /\ symbol[Len(symbol)] = Cmd("Z")
    /\ symbol[Len(symbol) - 2] = Num(C1(path[1].anchor) * width)

-----------------------------------------------------------------------------
(* Properties of _apply_opacity *)

\* round(p * 2.55)
RoundPercent(p) == (p * MaxLevel + 50) \div FullOpacity

\* C3: on a buffer without alpha channel, _apply_opacity adds an alpha
\* channel iff p # 100, and the added alpha is uniformly round(p * 2.55), a
\* value in 0..255.
C3_SynthesizedAlpha ==
    (opc = "done" /\ ~EndsWithA(image0.mode)) =>
        LET p == GetOpacity(setting)
        IN  /\ EndsWithA(image.mode) <=> (p # FullOpacity)
            /\ p # FullOpacity =>
                  \A k \in DOMAIN image.alpha :
                      image.alpha[k] = RoundPercent(p) /\ image.alpha[k] \in 0..MaxLevel

\* C8: on a buffer with an alpha channel, every alpha becomes the previous
\* alpha a scaled by p/100 and truncated (so it stays in 0..a), every colour
\* channel stays as it was, and p = 100 leaves the whole buffer unchanged.
C8_ScaledAlpha ==
    (opc = "done" /\ EndsWithA(image0.mode)) =>
        LET p == GetOpacity(setting)
        IN  /\ image.mode = image0.mode
            /\ image.color = image0.color
            /\ DOMAIN image.alpha = DOMAIN image0.alpha
            /\ \A k \in DOMAIN image0.alpha :
                  LET a == image0.alpha[k]
                      b == image.alpha[k]
                  IN  /\ FullOpacity * b <= a * p
                      /\ a * p < FullOpacity * (b + 1)
                      /\ b \in 0..a
            /\ p = FullOpacity => image = image0

C8_Witness ==
    /\ opc = "done" /\ image0.mode = "RGBA"
    /\ setting.has_opacity /\ setting.opacity = 50
    /\ image0.alpha[1] = MaxLevel /\ image.alpha[1] = 127
    /\ image0.alpha[2] = 1 /\ image.alpha[2] = 0

-----------------------------------------------------------------------------
(* Properties of draw_gradient_fill *)

\* C4: with a gradient form that is neither custom stops nor colour noise
\* (and both backends present), draw_gradient_fill returns no raster without
\* raising, whatever the gradient kind and the opacity.
C4_UnknownFormNoRaster ==
    (gpc = "done" /\ numpy_ok /\ scipy_ok /\ grad.form = "Unknown") =>
        (raised = "none" /\ gresult = NoRaster)

\* C5: when the numeric backend, the interpolation backend or both are
\* missing, draw_gradient_fill writes a diagnostic and returns no raster
\* without raising.
C5_MissingBackendNoRaster ==
    (gpc = "done" /\ (~numpy_ok \/ ~scipy_ok)) =>
        (raised = "none" /\ gresult = NoRaster /\ log # <<>>)

-----------------------------------------------------------------------------
(* Properties of _apply_color_map, custom stops *)

CustomStopsDone == gpc = "mapped" /\ grad.form = "CustomStops" /\ raised = "none"

\* The colour stops and the transparency stops as (location, value) entries.
ColorInput == ColorEntries(grad.colors, scalar)
AlphaInput == AlphaEntries(grad.transparency.stops)
AlphaUsed == grad.transparency.present /\ EndsWithA(mode)

LocationsOf(entries) == {entries[k].x : k \in DOMAIN entries}
IsLastAt(entries, k) == \A j \in DOMAIN entries : j > k => entries[j].x # entries[k].x
LastValueAt(entries, loc) ==
    entries[CHOOSE k \in DOMAIN entries : entries[k].x = loc /\ IsLastAt(entries, k)].y

RECURSIVE KeepLast(_, _)
\* The entries from position k on with every earlier same-location entry removed.
KeepLast(entries, k) ==
    IF k > Len(entries) THEN <<>>
    ELSE IF IsLastAt(entries, k) THEN <<entries[k]>> \o KeepLast(entries, k + 1)
    ELSE KeepLast(entries, k + 1)

StrictlyIncreasing(table) == \A i \in 1..(Len(table) - 1) : table[i].x < table[i + 1].x
\* The table has, at each distinct input location, the last input value there.
HoldsLast(table, entries) ==
    \A loc \in LocationsOf(entries) :
        \E i \in DOMAIN table : table[i].x = loc /\ table[i].y = LastValueAt(entries, loc)
FlatTable(value) == << [x |-> 0, y |-> value], [x |-> LocationScale, y |-> value] >>

TableAsClaimed(table, entries) ==
    /\ StrictlyIncreasing(table)
    /\ HoldsLast(table, entries)
    /\ table = StopTable(KeepLast(entries, 1))
TableAsAmended(table, entries) ==
    /\ StrictlyIncreasing(table)
    /\ table = StopTable(KeepLast(entries, 1))
    /\ IF Cardinality(LocationsOf(entries)) >= 2
       THEN HoldsLast(table, entries) /\ Len(table) = Cardinality(LocationsOf(entries))
       ELSE table = FlatTable(entries[Len(entries)].y)

\* C6 as stated: for every non-empty non-decreasing list of colour (or
\* transparency) stops the table handed to the interpolant has strictly
\* increasing locations, holds at each distinct location the value of the
\* last input stop there, and is the table of the input with all earlier
\* same-location stops removed.
C6_LastStopAtEveryLocation ==
    CustomStopsDone =>
        /\ TableAsClaimed(ctable, ColorInput)
        /\ AlphaUsed => TableAsClaimed(atable, AlphaInput)

\* C6 amended: the table has strictly increasing locations and is the table
\* of the input with all earlier same-location stops removed; when the input
\* has two or more distinct locations it holds exactly one entry per
\* distinct location, with the last input value there; when the input has a
\* single distinct location it is the flat table (0, V), (1, V) of the last
\* input value V, whatever that location.
C6_LastStopOrFlat ==
    CustomStopsDone =>
        /\ TableAsAmended(ctable, ColorInput)
        /\ AlphaUsed => TableAsAmended(atable, AlphaInput)

C6_Witness ==
    /\ CustomStopsDone
    /\ Len(grad.colors) = 4
    /\ grad.colors[1].location = 0
    /\ grad.colors[2].location = 1229 /\ grad.colors[3].location = 1229
    /\ grad.colors[4].location = LocationScale
    /\ grad.colors[2].color # grad.colors[3].color
    /\ ctable = << ColorInput[1], ColorInput[3], ColorInput[4] >>
    /\ AlphaUsed /\ Len(grad.transparency.stops) = 2
    /\ grad.transparency.stops[1].location = grad.transparency.stops[2].location
    /\ atable = FlatTable(AlphaInput[2].y)

\* Index values at which the interpolant is evaluated in C7.
ZSamples == {0, 1, 1229, 2048, 2867, LocationScale - 1, LocationScale}
\* astype(np.uint8) of a colour given in hundredths.
Quantized(value) == [c \in DOMAIN value |-> (value[c] \div 100) % (MaxLevel + 1)]

\* C7: when one colour stop remains after the collapse (all stops share one
\* location), the table is the flat range (0, K), (1, K) with K the scaled
\* colour of the remaining stop, the interpolant is K at every Z in [0,1],
\* and every pixel is K (as stored in 8 bits), whatever the stop's location.
C7_SingleStopUniform ==
    (CustomStopsDone /\ Cardinality(LocationsOf(ColorInput)) = 1) =>
        LET K == ColorInput[Len(ColorInput)].y
        IN  /\ ctable = FlatTable(K)
            /\ \A z \in ZSamples : \A c \in DOMAIN K :
                  InterpNum(ctable, z, c) = K[c] * InterpDen(ctable, z)
            /\ \A k \in DOMAIN gradient_image.color :
                  gradient_image.color[k] = Quantized(K)

C7_Witness ==
    /\ CustomStopsDone
    /\ Len(grad.colors) >= 2
    /\ \A k \in DOMAIN grad.colors : grad.colors[k].location = 1229
    /\ grad.colors[1].color # grad.colors[Len(grad.colors)].color
    /\ mode = "RGB"
    /\ Z = <<1229, 2048>>
    /\ gradient_image.color = << <<80, 40, 40>>, <<80, 40, 40>> >>

\* C9: the scalar applied to the colour-stop channels depends only on the
\* colour model of the target mode: 1.0 for RGB and RGBA, 2.55 for L, LA,
\* CMYK and CMYKA.
C9_ScalarByColorModel ==
    CustomStopsDone =>
        scalar = IF RStripA(mode) = "RGB" THEN 100 ELSE 255

====
